---------------------------- MODULE Spec2Model ----------------------------
(***************************************************************************)
(* State-machine model of the devenv environment-lifecycle orchestrator:   *)
(* the create / branch / start / stop / remove commands, the SQLite state  *)
(* store, the Caddy route synchronizer and the port allocator.             *)
(*                                                                         *)
(* Strings are modelled as sequences of tokens (a token is one letter, a   *)
(* separator such as "-" or "/", or one run of digits), so that string     *)
(* concatenation is sequence concatenation and slugify / generateHostname  *)
(* are computed token by token as the code computes them.                  *)
(***************************************************************************)
EXTENDS Integers, Sequences, FiniteSets, TLC

(***************************************************************************)
(* Program constants (packages/shared/src/constants.ts).                   *)
(***************************************************************************)
HOST_PORT_RANGE_START == 49200

DEFAULT_CONTAINER_PORT == 3000

LOCALHOST_SUFFIX == <<".localhost">>

(***************************************************************************)
(* Bounds of the model.                                                    *)
(***************************************************************************)
\* operations that may be begun in one behaviour, one command at a time
MaxOps == 3

\* operations that may be begun in one behaviour, two commands at a time
MaxOpsConc == 2

\* operations that may be begun in one behaviour over one environment
MaxOpsLong == 4

\* operations that may be begun in one behaviour when a start races a stop
MaxOpsRace == 3

\* out-of-band changes (container stopped / removed behind the tool's back)
MaxDrift == 1

\* injected gateway failures (an external call answering with an error)
MaxFaults == 1

(***************************************************************************)
(* Inputs.  The repositories, branches and environment names the commands  *)
(* are called with are fixed by the initial state (variable world), so     *)
(* that each specification draws them from its own small sets.             *)
(***************************************************************************)
\* forwardPorts of the repository's devcontainer.json
RepoConfig(repo) == IF repo = <<"a">> THEN <<3000, 8080>> ELSE <<>>

\* containerId TEXT, NULL until a container is recorded; also a lookup that
\* found no row
NoId == 0

(***************************************************************************)
(* String helpers.                                                         *)
(***************************************************************************)
\* String.prototype.toLowerCase, per token
toLowerCase(ch) == IF ch = "C" THEN "c" ELSE ch

\* the character class [a-z0-9-] of slugify's first replace
IsSlugChar(ch) == ch \in {"a", "b", "c", "-", "3000", "8080"}

RECURSIVE CollapseDashes(_)
\* .replace(/-+/g, "-")
CollapseDashes(s) ==
    IF Len(s) <= 1 THEN s
    ELSE IF s[1] = "-" /\ s[2] = "-" THEN CollapseDashes(Tail(s))
         ELSE <<s[1]>> \o CollapseDashes(Tail(s))

\* .replace(/^-|-$/g, ""): one leading and one trailing dash are removed
TrimDashes(s) ==
    LET a == IF Len(s) > 0 /\ s[1] = "-" THEN Tail(s) ELSE s
    IN  IF Len(a) > 0 /\ a[Len(a)] = "-" THEN SubSeq(a, 1, Len(a) - 1) ELSE a

slugify(str) ==
    LET lower == [k \in 1..Len(str) |-> toLowerCase(str[k])]
        repl  == [k \in 1..Len(lower) |->
                     IF IsSlugChar(lower[k]) THEN lower[k] ELSE "-"]
    IN  TrimDashes(CollapseDashes(repl))

\* `${projectName}-${slugify(branch)}`
EnvNameOf(projectName, branch) == projectName \o <<"-">> \o slugify(branch)


\* formatRouteId(envName): `devenv-${envName}`
formatRouteId(envName) == <<"devenv", "-">> \o envName

\* the argument the commands pass to it: `${envName}-${pm.containerPort}`
RouteKey(envName, containerPort) == envName \o <<"-", ToString(containerPort)>>

\* the optional argument `port?: number` left out (undefined)
NoPort == 0

\* a hostname that carries the port suffix for every port
generateHostnameAlwaysSuffix(projectName, branch, port) ==
    projectName \o <<"-">> \o branch \o <<"-", ToString(port)>> \o LOCALHOST_SUFFIX

\* generateHostname(projectName, branch, port)
generateHostname(projectName, branch, port) ==
    LET portSuffix == IF port # NoPort /\ port # DEFAULT_CONTAINER_PORT
                      THEN <<"-", ToString(port)>> ELSE <<>>
    IN  projectName \o <<"-">> \o branch \o portSuffix \o LOCALHOST_SUFFIX

\* resolveForwardPorts(config): the configured list, or [3000] when it is
\* missing or empty
resolveForwardPorts(cfg) ==
    IF Len(cfg) > 0 THEN cfg ELSE <<DEFAULT_CONTAINER_PORT>>

\* discoverEnvFiles(repoPath): the .env files of the repository; every
\* repository of the model holds one file ".env" whose content names it
discoverEnvFiles(repo) == { [relativePath |-> ".env", content |-> repo] }

(***************************************************************************)
(* State.                                                                  *)
(***************************************************************************)
VARIABLES
    projects,        \* table projects: sequence of rows, id = position
    environments,    \* table environments: set of rows
    nextEnvId,       \* AUTOINCREMENT counter of environments
    envFiles,        \* table env_files: set of rows
    portMappings,    \* table port_mappings: sequence of rows in insert order
    containers,      \* the container runtime: set of containers
    nextContainerId, \* ids the runtime hands out
    worktrees,       \* worktree directories on disk: set of <<repo, branch>>
    caddy,           \* the proxy: [server: collection exists, routes: Seq]
    procs,           \* per running command: position and local variables
    opsLeft,         \* operations that may still be begun
    drift,           \* out-of-band changes that may still happen
    faults,          \* gateway failures that may still be injected
    world            \* the inputs the commands are called with

store == <<projects, environments, nextEnvId, envFiles, portMappings>>

runtime == <<containers, nextContainerId>>

budget == <<opsLeft, drift, faults, world>>

vars == <<projects, environments, nextEnvId, envFiles, portMappings,
          containers, nextContainerId, worktrees, caddy, procs,
          opsLeft, drift, faults, world>>

\* local state of a command slot that runs nothing
Idle ==
    [op |-> "idle", pc |-> "idle", repo |-> <<>>, branch |-> <<>>,
     projectName |-> <<>>, envName |-> <<>>, srcName |-> <<>>, cfg |-> <<>>,
     projectId |-> NoId, envId |-> NoId, srcId |-> NoId,
     removeExisting |-> FALSE, i |-> 0, hostPort |-> 0, pms |-> <<>>, r |-> 0,
     containerId |-> NoId, outcome |-> "none", at |-> "none",
     \* history, kept for the properties only: the last answer of a gateway,
     \* create found a stale Running status, the state when the command began,
     \* the state when the stop began that this start follows
     res |-> 0, stale |-> FALSE, snap |-> <<>>, prev |-> <<>>]

InitStore ==
    /\ projects = <<>>
    /\ environments = {}
    /\ nextEnvId = 1
    /\ envFiles = {}
    /\ portMappings = <<>>
    /\ containers = {}
    /\ nextContainerId = 1
    /\ worktrees = {}
    /\ caddy = [server |-> FALSE, routes |-> <<>>]

\* one repository, two branches with the same slug, the names of the
\* environment create makes and of the one branch makes from it
SmallWorld ==
    [repos |-> { <<"a">> },
     branches |-> { <<"c">>, <<"C">> },
     names |-> { <<"a", "-", "c">>, <<"a", "-", "b">> },
     newBranches |-> { <<"b">>, <<"b", "-", "8080">> },
     snapshots |-> TRUE]

\* one repository, one branch, one environment name, no snapshots
ConcWorld ==
    [repos |-> { <<"a">> },
     branches |-> { <<"c">> },
     names |-> { <<"a", "-", "c">> },
     newBranches |-> { <<"b">> },
     snapshots |-> FALSE]

\* one repository, two branches with different slugs, one environment name
RaceWorld ==
    [repos |-> { <<"a">> },
     branches |-> { <<"c">>, <<"b">> },
     names |-> { <<"a", "-", "c">> },
     newBranches |-> { <<"b">> },
     snapshots |-> FALSE]

\* two repositories whose environment names collide: repository a with
\* branch b-c and repository a-b (no forwardPorts) with branch c
CollideWorld ==
    [repos |-> { <<"a">>, <<"a", "-", "b">> },
     branches |-> { <<"c">>, <<"b", "-", "c">> },
     names |-> { <<"a", "-", "b", "-", "c">> },
     newBranches |-> { <<"b">> },
     snapshots |-> FALSE]

\* one repository, two branches with the same slug, one environment name
LongWorld ==
    [repos |-> { <<"a">> },
     branches |-> { <<"c">>, <<"C">> },
     names |-> { <<"a", "-", "c">> },
     newBranches |-> { <<"b">> },
     snapshots |-> TRUE]

\* the state a command finds when it begins
Snapshot ==
    [projects |-> projects, environments |-> environments, envFiles |-> envFiles,
     portMappings |-> portMappings, containers |-> containers,
     worktrees |-> worktrees, caddy |-> caddy]

\* local state of a command that begins
Fresh == [Idle EXCEPT !.snap = IF world.snapshots THEN Snapshot ELSE <<>>]

\* one command at a time (a single CLI user)
Init ==
    /\ InitStore
    /\ procs = [p \in {1} |-> Idle]
    /\ opsLeft = MaxOps
    /\ drift = MaxDrift
    /\ faults = MaxFaults
    /\ world = SmallWorld

\* one command at a time, and no gateway fails in any other way than by
\* answering what its state says
InitHonest ==
    /\ InitStore
    /\ procs = [p \in {1} |-> Idle]
    /\ opsLeft = MaxOps
    /\ drift = MaxDrift
    /\ faults = 0
    /\ world = SmallWorld

\* one command at a time, over a longer history of one environment
InitLong ==
    /\ InitStore
    /\ procs = [p \in {1} |-> Idle]
    /\ opsLeft = MaxOpsLong
    /\ drift = MaxDrift
    /\ faults = MaxFaults
    /\ world = LongWorld

\* one command at a time, on two repositories
InitCollide ==
    /\ InitStore
    /\ procs = [p \in {1} |-> Idle]
    /\ opsLeft = MaxOps
    /\ drift = MaxDrift
    /\ faults = MaxFaults
    /\ world = CollideWorld

\* two commands at a time, three in a row, and every gateway answers what
\* its state says (two HTTP requests on an environment created before)
InitRace ==
    /\ InitStore
    /\ procs = [p \in {1, 2} |-> Idle]
    /\ opsLeft = MaxOpsRace
    /\ drift = 0
    /\ faults = 0
    /\ world = RaceWorld

\* two commands at a time (two CLI processes, or two HTTP requests)
InitConc ==
    /\ InitStore
    /\ procs = [p \in {1, 2} |-> Idle]
    /\ opsLeft = MaxOpsConc
    /\ drift = 0
    /\ faults = MaxFaults
    /\ world = ConcWorld

Procs == DOMAIN procs

\* the slots are interchangeable: a command takes the lowest free one
LowestFree(p) ==
    /\ procs[p].pc \in {"idle", "done"}
    /\ \A q \in Procs : q < p => procs[q].pc \notin {"idle", "done"}

(***************************************************************************)
(* The state store (db/database.ts).                                       *)
(***************************************************************************)
\* getProjectByName: the row's id, NoId when there is none
getProjectByName(name) ==
    IF \E k \in 1..Len(projects) : projects[k].name = name
    THEN CHOOSE k \in 1..Len(projects) : projects[k].name = name
    ELSE NoId

\* getEnvironmentByName: the rows of that name (none or one)
getEnvironmentByName(name) == { e \in environments : e.name = name }

\* FOREIGN KEY (environment_id) REFERENCES environments(id)
EnvironmentExists(envId) == \E e \in environments : e.id = envId

\* a port_mappings table whose host_port column is not UNIQUE
HostPortNotChecked(hostPort) == TRUE

\* a port_mappings table whose hostname column is not UNIQUE
HostnameNotChecked(hostname) == TRUE

\* host_port INTEGER UNIQUE
HostPortUnique(hostPort) ==
    \A k \in 1..Len(portMappings) : portMappings[k].hostPort # hostPort

\* hostname TEXT UNIQUE
HostnameUnique(hostname) ==
    \A k \in 1..Len(portMappings) : portMappings[k].hostname # hostname

\* whether INSERT INTO port_mappings succeeds
insertPortMappingOk(envId, hostPort, hostname) ==
    /\ EnvironmentExists(envId)
    /\ HostPortUnique(hostPort)
    /\ HostnameUnique(hostname)

\* an insert that stores nothing
insertPortMappingLost(envId, containerPort, hostPort, hostname) == portMappings

\* the table after INSERT INTO port_mappings
insertPortMapping(envId, containerPort, hostPort, hostname) ==
    Append(portMappings,
           [environmentId |-> envId, containerPort |-> containerPort,
            hostPort |-> hostPort, hostname |-> hostname])

RECURSIVE RowsNotOf(_, _)
\* the rows of table t that do not belong to environment envId, in order
RowsNotOf(t, envId) ==
    IF t = <<>> THEN <<>>
    ELSE IF t[1].environmentId = envId THEN RowsNotOf(Tail(t), envId)
         ELSE <<t[1]>> \o RowsNotOf(Tail(t), envId)

\* a create that does not clear the rows of an earlier attempt
deletePortMappingsSkipped(envId) == portMappings

\* DELETE FROM port_mappings WHERE environment_id = ?
deletePortMappings(envId) == RowsNotOf(portMappings, envId)

RECURSIVE SortByContainerPort(_)
\* ORDER BY container_port (insertion sort; stable)
SortByContainerPort(t) ==
    IF Len(t) <= 1 THEN t
    ELSE LET m == CHOOSE k \in 1..Len(t) :
                      /\ \A j \in 1..Len(t) : t[k].containerPort <= t[j].containerPort
                      /\ \A j \in 1..(k - 1) : t[j].containerPort # t[k].containerPort
             rest == [j \in 1..(Len(t) - 1) |-> IF j < m THEN t[j] ELSE t[j + 1]]
         IN  <<t[m]>> \o SortByContainerPort(rest)

RECURSIVE RowsOf(_, _)
\* the rows of table t that belong to environment envId, in order
RowsOf(t, envId) ==
    IF t = <<>> THEN <<>>
    ELSE IF t[1].environmentId = envId THEN <<t[1]>> \o RowsOf(Tail(t), envId)
         ELSE RowsOf(Tail(t), envId)

\* SELECT * FROM port_mappings WHERE environment_id = ? ORDER BY container_port
getPortMappings(envId) == SortByContainerPort(RowsOf(portMappings, envId))

\* SELECT MAX(host_port): 0 stands for NULL (no rows)
MaxHostPort ==
    IF Len(portMappings) = 0 THEN 0
    ELSE CHOOSE m \in { portMappings[k].hostPort : k \in 1..Len(portMappings) } :
             \A k \in 1..Len(portMappings) : portMappings[k].hostPort <= m

\* an allocator without the case of the empty table (MAX is NULL)
getNextAvailableHostPortNoStart == MaxHostPort + 1

\* an allocator that counts the rows instead of taking the largest host port
getNextAvailableHostPortByCount == HOST_PORT_RANGE_START + Len(portMappings)

\* row.max_port ? row.max_port + 1 : HOST_PORT_RANGE_START
getNextAvailableHostPort ==
    IF MaxHostPort # 0 THEN MaxHostPort + 1 ELSE HOST_PORT_RANGE_START

\* an UPDATE of status that lost its WHERE clause
updateEnvironmentStatusAll(envId, status) ==
    { [e EXCEPT !.status = status] : e \in environments }

\* UPDATE environments SET status = ? WHERE id = ?
updateEnvironmentStatus(envId, status) ==
    { IF e.id = envId THEN [e EXCEPT !.status = status] ELSE e : e \in environments }

\* an UPDATE of container_id that lost its WHERE clause
updateEnvironmentContainerAll(envId, containerId) ==
    { [e EXCEPT !.containerId = containerId] : e \in environments }

\* UPDATE environments SET container_id = ? WHERE id = ?
updateEnvironmentContainer(envId, containerId) ==
    { IF e.id = envId THEN [e EXCEPT !.containerId = containerId] ELSE e
      : e \in environments }

\* INSERT ... ON CONFLICT(environment_id, relative_path) DO UPDATE SET content,
\* once per file of a set (the paths of the set are distinct)
upsertEnvFiles(envId, files) ==
    { x \in envFiles :
        ~(x.environmentId = envId
          /\ \E f \in files : f.relativePath = x.relativePath) }
    \cup { [environmentId |-> envId, relativePath |-> f.relativePath,
            content |-> f.content] : f \in files }


\* INSERT INTO environments ... RETURNING *: status defaults to 'created'
insertEnvironment(projectId, name, branch, cfg) ==
    environments \cup
        { [id |-> nextEnvId, projectId |-> projectId, name |-> name,
           branch |-> branch, status |-> "created", containerId |-> NoId,
           cfg |-> cfg] }

\* DELETE FROM env_files WHERE environment_id = ?
deleteEnvFiles(envId) == { x \in envFiles : x.environmentId # envId }

\* DELETE FROM environments WHERE id = ?
deleteEnvironment(envId) == { e \in environments : e.id # envId }

\* a row of env_files or port_mappings still references the environment
EnvironmentReferenced(envId) ==
    \/ \E x \in envFiles : x.environmentId = envId
    \/ \E k \in 1..Len(portMappings) : portMappings[k].environmentId = envId

(***************************************************************************)
(* Control flow shared by the commands.                                    *)
(***************************************************************************)
\* res.ok of fetch: a status in 200..299
Ok(status) == status \in 200..299

\* the command throws at its current position
Throw(l, kind) ==
    [l EXCEPT !.pc = "done", !.outcome = kind, !.at = l.pc,
              !.i = 0, !.r = 0, !.hostPort = 0]

\* the command returns normally
Finish(l) ==
    [l EXCEPT !.pc = "done", !.outcome = "ok", !.at = "end",
              !.i = 0, !.r = 0, !.hostPort = 0]

Goto(l, pc) == [l EXCEPT !.pc = pc]

SetProc(p, l) == procs' = [procs EXCEPT ![p] = l]

\* the statement that follows the worktree step
AfterWorktree(l) ==
    IF l.op = "create" THEN Goto(l, "c_getEnv") ELSE Goto(l, "b_insertEnv")

\* a command that records Running without building a container
AfterPortsNoContainer(l) == Goto(l, "setRunning")

\* the statement that follows the port-mapping loop
AfterPorts(l) ==
    IF l.op = "create" THEN Goto(l, "c_up") ELSE Goto(l, "b_createContainer")

\* the statement that follows updateEnvironmentContainer
AfterSetContainer(l) ==
    IF l.op = "create" THEN Goto(l, "setRunning") ELSE Goto(l, "caddy")

\* the statement that follows updateEnvironmentStatus(.., "running")
AfterSetRunning(l) ==
    IF l.op = "branch" THEN Finish(l) ELSE Goto(l, "caddy")

\* the statement that follows the addRoute loop
AfterRoutes(l) ==
    IF l.op = "branch" THEN Goto(l, "startContainer") ELSE Finish(l)

\* the statement that follows the removeRoute loop
AfterRemoveRoutes(l) ==
    IF l.op = "stop" THEN Finish(l)
    ELSE IF l.containerId # NoId THEN Goto(l, "rm_container")
         ELSE Goto(l, "rm_deletePM")

\* the route object addRoute builds: "@id", match host, upstream dial port
RouteOf(envName, pm) ==
    [id |-> formatRouteId(RouteKey(envName, pm.containerPort)), host |-> pm.hostname,
     port |-> pm.hostPort]

\* for (const pm of portMappings) await addRoute(...): enter the loop
EnterRoutes(l) ==
    IF Len(l.pms) = 0 THEN AfterRoutes(l) ELSE [l EXCEPT !.r = 1, !.pc = "ar_get"]

\* an addRoute loop that starts over when it reaches the last mapping
RouteDoneStartsOver(l) == [l EXCEPT !.r = 1, !.pc = "ar_get"]

\* addRoute returned: the next mapping, or the end of the loop
RouteDone(l) ==
    IF l.r < Len(l.pms) THEN [l EXCEPT !.r = l.r + 1, !.pc = "ar_get"]
    ELSE AfterRoutes(l)

\* for (const pm of portMappings) await removeRoute(...): enter the loop
EnterRemoveRoutes(l) ==
    IF Len(l.pms) = 0 THEN AfterRemoveRoutes(l)
    ELSE [l EXCEPT !.r = 1, !.pc = "rr_delete"]

\* removeRoute returned: the next mapping, or the end of the loop
RemoveRouteDone(l) ==
    IF l.r < Len(l.pms) THEN [l EXCEPT !.r = l.r + 1] ELSE AfterRemoveRoutes(l)


(***************************************************************************)
(* The route synchronizer (tunnel/caddy.ts): what the code does with each  *)
(* answer of the proxy's admin API.                                        *)
(***************************************************************************)
\* ensureServerConfig, after GET .../servers/devenv: return when res.ok,
\* otherwise (any other answer, or fetch threw) PUT the empty server config
ensureServerConfigAfterGet(l, status) ==
    IF Ok(status) THEN [l EXCEPT !.pc = "ar_putId", !.res = status]
    ELSE [l EXCEPT !.pc = "ar_putServer", !.res = status]

\* ensureServerConfig, after PUT .../servers/devenv: throw unless res.ok
ensureServerConfigAfterPut(l, status) ==
    IF ~Ok(status) THEN Throw([l EXCEPT !.res = status], "error")
    ELSE [l EXCEPT !.pc = "ar_putId", !.res = status]

\* an addRoute that does not wait for the route to be written
addRouteAfterPutIdNoWait(l, status) == RouteDone([l EXCEPT !.res = status])

\* addRoute, after PUT /id/{routeId}: return when res.ok, otherwise POST
addRouteAfterPutId(l, status) ==
    IF Ok(status) THEN RouteDone([l EXCEPT !.res = status])
    ELSE [l EXCEPT !.pc = "ar_post", !.res = status]

\* addRoute, after POST .../routes: throw unless res.ok
addRouteAfterPost(l, status) ==
    IF ~Ok(status) THEN Throw([l EXCEPT !.res = status], "error")
    ELSE RouteDone([l EXCEPT !.res = status])

\* a removeRoute that treats not-found like every other non-2xx answer
removeRouteStrict(l, status) ==
    IF ~Ok(status) THEN Throw([l EXCEPT !.res = status], "error")
    ELSE RemoveRouteDone([l EXCEPT !.res = status])

\* removeRoute, after DELETE /id/{routeId}: throw unless res.ok or 404
removeRouteAfterDelete(l, status) ==
    IF ~Ok(status) /\ status # 404 THEN Throw([l EXCEPT !.res = status], "error")
    ELSE RemoveRouteDone([l EXCEPT !.res = status])

(***************************************************************************)
(* The proxy's admin API (external): a named route collection and routes   *)
(* addressable by id.                                                      *)
(***************************************************************************)
\* positions of the routes registered under an id
RouteIndexes(id) == { k \in 1..Len(caddy.routes) : caddy.routes[k].id = id }

\* a sequence without its k-th element
RemoveAt(seq, k) ==
    [j \in 1..(Len(seq) - 1) |-> IF j < k THEN seq[j] ELSE seq[j + 1]]

\* GET the collection: 200 when it exists, 404 when it does not
CaddyGetServer(p) ==
    /\ procs[p].pc = "ar_get"
    /\ SetProc(p, ensureServerConfigAfterGet(procs[p],
                      IF caddy.server THEN 200 ELSE 404))
    /\ UNCHANGED <<store, runtime, worktrees, caddy, budget>>

\* PUT the empty collection: creates it, or answers "already exists"
CaddyPutServer(p) ==
    /\ procs[p].pc = "ar_putServer"
    /\ IF caddy.server
       THEN /\ SetProc(p, ensureServerConfigAfterPut(procs[p], 409))
            /\ UNCHANGED caddy
       ELSE /\ SetProc(p, ensureServerConfigAfterPut(procs[p], 200))
            /\ caddy' = [server |-> TRUE, routes |-> <<>>]
    /\ UNCHANGED <<store, runtime, worktrees, budget>>

\* PUT /id/{id}: replaces the route registered under the id, 404 when none
CaddyPutId(p) ==
    LET l == procs[p]
        route == RouteOf(l.envName, l.pms[l.r])
    IN  /\ l.pc = "ar_putId"
        /\ IF RouteIndexes(route.id) = {}
           THEN /\ SetProc(p, addRouteAfterPutId(l, 404))
                /\ UNCHANGED caddy
           ELSE /\ SetProc(p, addRouteAfterPutId(l, 200))
                /\ \E k \in RouteIndexes(route.id) :
                       caddy' = [caddy EXCEPT !.routes[k] = route]
        /\ UNCHANGED <<store, runtime, worktrees, budget>>

\* POST onto the collection: appends the route; 404 without a collection
CaddyPostRoute(p) ==
    LET l == procs[p]
        route == RouteOf(l.envName, l.pms[l.r])
    IN  /\ l.pc = "ar_post"
        /\ IF caddy.server
           THEN /\ SetProc(p, addRouteAfterPost(l, 200))
                /\ caddy' = [caddy EXCEPT !.routes = Append(@, route)]
           ELSE /\ SetProc(p, addRouteAfterPost(l, 404))
                /\ UNCHANGED caddy
        /\ UNCHANGED <<store, runtime, worktrees, budget>>

\* DELETE /id/{id}: removes the route registered under the id, 404 when none
CaddyDeleteId(p) ==
    LET l == procs[p]
        id == formatRouteId(RouteKey(l.envName, l.pms[l.r].containerPort))
    IN  /\ l.pc = "rr_delete"
        /\ IF RouteIndexes(id) = {}
           THEN /\ SetProc(p, removeRouteAfterDelete(l, 404))
                /\ UNCHANGED caddy
           ELSE /\ SetProc(p, removeRouteAfterDelete(l, 200))
                /\ \E k \in RouteIndexes(id) :
                       caddy' = [caddy EXCEPT !.routes = RemoveAt(@, k)]
        /\ UNCHANGED <<store, runtime, worktrees, budget>>

\* the proxy answers the pending request with a server error and no effect
CaddyFault(p) ==
    LET l == procs[p]
    IN  /\ faults > 0
        /\ faults' = faults - 1
        /\ l.pc \in {"ar_get", "ar_putServer", "ar_putId", "ar_post", "rr_delete"}
        /\ SetProc(p, CASE l.pc = "ar_get" -> ensureServerConfigAfterGet(l, 500)
                        [] l.pc = "ar_putServer" -> ensureServerConfigAfterPut(l, 500)
                        [] l.pc = "ar_putId" -> addRouteAfterPutId(l, 500)
                        [] l.pc = "ar_post" -> addRouteAfterPost(l, 500)
                        [] l.pc = "rr_delete" -> removeRouteAfterDelete(l, 500))
        /\ UNCHANGED <<store, runtime, worktrees, caddy, opsLeft, drift, world>>


(***************************************************************************)
(* The container runtime (external) and the code's reaction to its answers *)
(* (docker/client.ts, devcontainer/runner.ts).                             *)
(***************************************************************************)
ContainerById(id) == { c \in containers : c.id = id }

\* the containers `devcontainer up` identifies by its --id-label arguments
ContainersByLabel(projectName, envName) ==
    { c \in containers : c.project = projectName /\ c.env = envName }

\* a create that rejects the call whenever the stored container exists
createAfterInspectStrict(l, status, running) ==
    IF ~Ok(status) /\ status # 404 THEN Throw([l EXCEPT !.res = status], "error")
    ELSE IF Ok(status) THEN Throw([l EXCEPT !.res = status], "conflict")
         ELSE [l EXCEPT !.pc = "c_demote", !.stale = TRUE, !.res = status]

\* create, after inspectContainer: a 404 means the container is gone, any
\* other error is rethrown; Conflict when State.Running
createAfterInspect(l, status, running) ==
    IF ~Ok(status) /\ status # 404 THEN Throw([l EXCEPT !.res = status], "error")
    ELSE IF Ok(status) /\ running THEN Throw([l EXCEPT !.res = status], "conflict")
         ELSE [l EXCEPT !.pc = "c_demote", !.stale = TRUE, !.res = status]

\* a dockerFetch that returns every answer to its caller
dockerFetchNeverThrows(status) == FALSE

\* a dockerFetch that throws on the 4xx and 5xx answers only
dockerFetchThrowsOnErrors(status) == status >= 400

\* dockerFetch throws DockerError on every answer that is not res.ok
dockerFetchThrows(status) == ~Ok(status)

\* POST /containers/{id}/start: 204, 304 when already started, 404
DockerStartStatus(id) ==
    IF ContainerById(id) = {} THEN 404
    ELSE IF \E c \in ContainerById(id) : c.running THEN 304 ELSE 204

\* POST /containers/{id}/stop: 204, 304 when already stopped, 404
DockerStopStatus(id) ==
    IF ContainerById(id) = {} THEN 404
    ELSE IF \E c \in ContainerById(id) : c.running THEN 204 ELSE 304

SetRunning(id, running) ==
    { IF c.id = id THEN [c EXCEPT !.running = running] ELSE c : c \in containers }

(***************************************************************************)
(* create (commands/create.ts).                                            *)
(***************************************************************************)
CreateBegin(p, repo, branch) ==
    /\ LowestFree(p)
    /\ opsLeft > 0
    /\ opsLeft' = opsLeft - 1
    /\ SetProc(p, [Fresh EXCEPT !.op = "create", !.pc = "c_getProject",
                               !.repo = repo, !.branch = branch,
                               !.projectName = slugify(repo),
                               !.envName = EnvNameOf(slugify(repo), branch),
                               !.cfg = RepoConfig(repo)])
    /\ UNCHANGED <<store, runtime, worktrees, caddy, drift, faults, world>>

\* let project = getProjectByName(db, projectName)
CreateGetProject(p) ==
    LET l == procs[p]
        id == getProjectByName(l.projectName)
    IN  /\ l.pc = "c_getProject"
        /\ SetProc(p, IF id # NoId
                      THEN [l EXCEPT !.projectId = id, !.pc = "worktree"]
                      ELSE Goto(l, "c_insertProject"))
        /\ UNCHANGED <<store, runtime, worktrees, caddy, budget>>

\* project = insertProject(db, projectName, repoPath); name is UNIQUE
CreateInsertProject(p) ==
    LET l == procs[p]
    IN  /\ l.pc = "c_insertProject"
        /\ IF getProjectByName(l.projectName) # NoId
           THEN /\ SetProc(p, Throw(l, "error"))
                /\ UNCHANGED projects
           ELSE /\ projects' = Append(projects,
                                      [name |-> l.projectName, repoPath |-> l.repo])
                /\ SetProc(p, [l EXCEPT !.projectId = Len(projects) + 1,
                                        !.pc = "worktree"])
        /\ UNCHANGED <<environments, nextEnvId, envFiles, portMappings,
                       runtime, worktrees, caddy, budget>>

\* if (!existsSync(worktreePath)) await createWorktree(repoPath, branch, path)
EnsureWorktree(p) ==
    LET l == procs[p]
    IN  /\ l.pc = "worktree"
        /\ worktrees' = worktrees \cup { <<l.repo, l.branch>> }
        /\ SetProc(p, AfterWorktree(l))
        /\ UNCHANGED <<store, runtime, caddy, budget>>

\* a create that inspects the container of every existing row
CreateGetEnvironmentInspectsAll(p) ==
    LET l == procs[p]
        rows == getEnvironmentByName(l.envName)
    IN  /\ l.pc = "c_getEnv"
        /\ IF rows = {}
           THEN SetProc(p, Goto(l, "c_insertEnv"))
           ELSE \E e \in rows :
                   SetProc(p,
                     IF e.containerId # NoId
                     THEN [l EXCEPT !.envId = e.id,
                                    !.containerId = e.containerId,
                                    !.pc = "c_inspect"]
                     ELSE [l EXCEPT !.envId = e.id, !.removeExisting = TRUE,
                                    !.pc = "c_envFiles"])
        /\ UNCHANGED <<store, runtime, worktrees, caddy, budget>>

\* let environment = getEnvironmentByName(db, envName) and the branches on it
CreateGetEnvironment(p) ==
    LET l == procs[p]
        rows == getEnvironmentByName(l.envName)
    IN  /\ l.pc = "c_getEnv"
        /\ IF rows = {}
           THEN SetProc(p, Goto(l, "c_insertEnv"))
           ELSE \E e \in rows :
                   SetProc(p,
                     IF e.status = "running"
                     THEN IF e.containerId # NoId
                          THEN [l EXCEPT !.envId = e.id,
                                         !.containerId = e.containerId,
                                         !.pc = "c_inspect"]
                          ELSE [l EXCEPT !.envId = e.id, !.stale = TRUE,
                                         !.pc = "c_demote"]
                     ELSE [l EXCEPT !.envId = e.id, !.removeExisting = TRUE,
                                    !.pc = "c_envFiles"])
        /\ UNCHANGED <<store, runtime, worktrees, caddy, budget>>

\* const info = await inspectContainer(environment.containerId)
CreateInspect(p) ==
    LET l == procs[p]
        cs == ContainerById(l.containerId)
    IN  /\ l.pc = "c_inspect"
        /\ SetProc(p, IF cs = {} THEN createAfterInspect(l, 404, FALSE)
                      ELSE createAfterInspect(l, 200, \E c \in cs : c.running))
        /\ UNCHANGED <<store, runtime, worktrees, caddy, budget>>

\* updateEnvironmentStatus(db, environment.id, "stopped")
CreateDemote(p) ==
    LET l == procs[p]
    IN  /\ l.pc = "c_demote"
        /\ environments' = updateEnvironmentStatus(l.envId, "stopped")
        /\ SetProc(p, [l EXCEPT !.removeExisting = TRUE, !.pc = "c_envFiles"])
        /\ UNCHANGED <<projects, nextEnvId, envFiles, portMappings,
                       runtime, worktrees, caddy, budget>>

\* an insert into a table whose name column is not UNIQUE
CreateInsertEnvironmentNotUnique(p) ==
    LET l == procs[p]
    IN  /\ l.pc = "c_insertEnv"
        /\ environments' = insertEnvironment(l.projectId, l.envName, l.branch, l.cfg)
        /\ nextEnvId' = nextEnvId + 1
        /\ SetProc(p, [l EXCEPT !.envId = nextEnvId, !.pc = "c_envFiles"])
        /\ UNCHANGED <<projects, envFiles, portMappings,
                       runtime, worktrees, caddy, budget>>

\* environment = insertEnvironment(...); name is UNIQUE
CreateInsertEnvironment(p) ==
    LET l == procs[p]
    IN  /\ l.pc = "c_insertEnv"
        /\ IF getEnvironmentByName(l.envName) # {}
           THEN /\ SetProc(p, Throw(l, "error"))
                /\ UNCHANGED <<environments, nextEnvId>>
           ELSE /\ environments' =
                       insertEnvironment(l.projectId, l.envName, l.branch, l.cfg)
                /\ nextEnvId' = nextEnvId + 1
                /\ SetProc(p, [l EXCEPT !.envId = nextEnvId, !.pc = "c_envFiles"])
        /\ UNCHANGED <<projects, envFiles, portMappings,
                       runtime, worktrees, caddy, budget>>

\* for (const envFile of await discoverEnvFiles(repoPath)) upsertEnvFile(...)
CreateEnvFiles(p) ==
    LET l == procs[p]
    IN  /\ l.pc = "c_envFiles"
        /\ IF EnvironmentExists(l.envId)
           THEN /\ envFiles' = upsertEnvFiles(l.envId, discoverEnvFiles(l.repo))
                /\ SetProc(p, Goto(l, "c_deletePM"))
           ELSE /\ SetProc(p, Throw(l, "error"))
                /\ UNCHANGED envFiles
        /\ UNCHANGED <<projects, environments, nextEnvId, portMappings,
                       runtime, worktrees, caddy, budget>>

\* deletePortMappings(db, environment.id), then the loop starts
CreateDeletePortMappings(p) ==
    LET l == procs[p]
    IN  /\ l.pc = "c_deletePM"
        /\ portMappings' = deletePortMappings(l.envId)
        /\ SetProc(p, [l EXCEPT !.i = 1, !.pc = "portRead"])
        /\ UNCHANGED <<projects, environments, nextEnvId, envFiles,
                       runtime, worktrees, caddy, budget>>


\* const hostPort = getNextAvailableHostPort(db)
PortRead(p) ==
    LET l == procs[p]
    IN  /\ l.pc = "portRead"
        /\ SetProc(p, [l EXCEPT !.hostPort = getNextAvailableHostPort,
                                !.pc = "portInsert"])
        /\ UNCHANGED <<store, runtime, worktrees, caddy, budget>>

\* insertPortMapping(db, environment.id, containerPort, hostPort, hostname);
\* portMappings.push(...); the next containerPort, or the end of the loop
PortInsert(p) ==
    LET l == procs[p]
        forwardPorts == resolveForwardPorts(l.cfg)
        containerPort == forwardPorts[l.i]
        hostname == generateHostname(l.projectName, l.branch, containerPort)
        pm == [containerPort |-> containerPort, hostPort |-> l.hostPort,
               hostname |-> hostname]
    IN  /\ l.pc = "portInsert"
        /\ IF insertPortMappingOk(l.envId, l.hostPort, hostname)
           THEN /\ portMappings' =
                       insertPortMapping(l.envId, containerPort, l.hostPort, hostname)
                /\ SetProc(p, IF l.i < Len(forwardPorts)
                              THEN [l EXCEPT !.pms = Append(@, pm), !.i = l.i + 1,
                                             !.pc = "portRead"]
                              ELSE AfterPorts([l EXCEPT !.pms = Append(@, pm)]))
           ELSE /\ SetProc(p, Throw(l, "error"))
                /\ UNCHANGED portMappings
        /\ UNCHANGED <<projects, environments, nextEnvId, envFiles,
                       runtime, worktrees, caddy, budget>>

\* const { containerId } = await devcontainerUp({..., removeExistingContainer}):
\* the container carrying the id labels is reused (and started), or, with
\* --remove-existing-container or when there is none, replaced by a new one
CreateDevcontainerUp(p) ==
    LET l == procs[p]
        existing == ContainersByLabel(l.projectName, l.envName)
    IN  /\ l.pc = "c_up"
        /\ IF l.removeExisting \/ existing = {}
           THEN /\ containers' = (containers \ existing) \cup
                       { [id |-> nextContainerId, name |-> <<>>,
                          project |-> l.projectName, env |-> l.envName,
                          running |-> TRUE] }
                /\ nextContainerId' = nextContainerId + 1
                /\ SetProc(p, [l EXCEPT !.containerId = nextContainerId,
                                        !.pc = "setContainer"])
           ELSE \E c \in existing :
                    /\ containers' = SetRunning(c.id, TRUE)
                    /\ UNCHANGED nextContainerId
                    /\ SetProc(p, [l EXCEPT !.containerId = c.id,
                                            !.pc = "setContainer"])
        /\ UNCHANGED <<store, worktrees, caddy, budget>>

\* updateEnvironmentContainer(db, environment.id, containerId)
SetContainer(p) ==
    LET l == procs[p]
    IN  /\ l.pc = "setContainer"
        /\ environments' = updateEnvironmentContainer(l.envId, l.containerId)
        /\ SetProc(p, AfterSetContainer(l))
        /\ UNCHANGED <<projects, nextEnvId, envFiles, portMappings,
                       runtime, worktrees, caddy, budget>>

\* updateEnvironmentStatus(db, environment.id, "running")
SetStatusRunning(p) ==
    LET l == procs[p]
    IN  /\ l.pc = "setRunning"
        /\ environments' = updateEnvironmentStatus(l.envId, "running")
        /\ SetProc(p, AfterSetRunning(l))
        /\ UNCHANGED <<projects, nextEnvId, envFiles, portMappings,
                       runtime, worktrees, caddy, budget>>

\* await ensureCaddyRunning(); start reads getPortMappings(db, environment.id)
\* next, create and branch keep the mappings they inserted
EnsureCaddyRunning(p) ==
    LET l == procs[p]
    IN  /\ l.pc = "caddy"
        /\ SetProc(p, EnterRoutes(IF l.op = "start"
                                  THEN [l EXCEPT !.pms = getPortMappings(l.envId)]
                                  ELSE l))
        /\ UNCHANGED <<store, runtime, worktrees, caddy, budget>>

(***************************************************************************)
(* start (commands/start.ts) and stop (the stop command).                  *)
(***************************************************************************)
StartBegin(p, name) ==
    /\ LowestFree(p)
    /\ opsLeft > 0
    /\ opsLeft' = opsLeft - 1
    /\ SetProc(p, [Fresh EXCEPT !.op = "start", !.pc = "lookup", !.envName = name,
                               !.prev = IF /\ procs[p].op = "stop"
                                           /\ procs[p].outcome = "ok"
                                           /\ procs[p].envName = name
                                        THEN procs[p].snap ELSE <<>>])
    /\ UNCHANGED <<store, runtime, worktrees, caddy, drift, faults, world>>

StopBegin(p, name) ==
    /\ LowestFree(p)
    /\ opsLeft > 0
    /\ opsLeft' = opsLeft - 1
    /\ SetProc(p, [Fresh EXCEPT !.op = "stop", !.pc = "lookup", !.envName = name])
    /\ UNCHANGED <<store, runtime, worktrees, caddy, drift, faults, world>>

\* a lookup without the test of environment.containerId
StartStopLookupUnguarded(p) ==
    LET l == procs[p]
        rows == getEnvironmentByName(l.envName)
    IN  /\ l.pc = "lookup"
        /\ l.op \in {"start", "stop"}
        /\ IF rows = {}
           THEN SetProc(p, Throw(l, "notfound"))
           ELSE \E e \in rows :
                   SetProc(p,
                     [l EXCEPT !.envId = e.id, !.containerId = e.containerId,
                               !.pc = IF l.op = "start" THEN "startContainer"
                                      ELSE "stopContainer"])
        /\ UNCHANGED <<store, runtime, worktrees, caddy, budget>>

\* getEnvironmentByName; "Environment not found"; "No container associated"
StartStopLookup(p) ==
    LET l == procs[p]
        rows == getEnvironmentByName(l.envName)
    IN  /\ l.pc = "lookup"
        /\ l.op \in {"start", "stop"}
        /\ IF rows = {}
           THEN SetProc(p, Throw(l, "notfound"))
           ELSE \E e \in rows :
                   SetProc(p,
                     IF e.containerId = NoId THEN Throw(l, "nocontainer")
                     ELSE [l EXCEPT !.envId = e.id, !.containerId = e.containerId,
                                    !.pc = IF l.op = "start" THEN "startContainer"
                                           ELSE "stopContainer"])
        /\ UNCHANGED <<store, runtime, worktrees, caddy, budget>>

\* await startContainer(containerId)
StartContainer(p) ==
    LET l == procs[p]
        status == DockerStartStatus(l.containerId)
    IN  /\ l.pc = "startContainer"
        /\ IF dockerFetchThrows(status)
           THEN /\ SetProc(p, Throw(l, "error"))
                /\ UNCHANGED containers
           ELSE /\ containers' = SetRunning(l.containerId, TRUE)
                /\ SetProc(p, Goto(l, "setRunning"))
        /\ UNCHANGED <<store, nextContainerId, worktrees, caddy, budget>>

\* await stopContainer(environment.containerId)
StopContainer(p) ==
    LET l == procs[p]
        status == DockerStopStatus(l.containerId)
    IN  /\ l.pc = "stopContainer"
        /\ IF dockerFetchThrows(status)
           THEN /\ SetProc(p, Throw(l, "error"))
                /\ UNCHANGED containers
           ELSE /\ containers' = SetRunning(l.containerId, FALSE)
                /\ SetProc(p, Goto(l, "setStopped"))
        /\ UNCHANGED <<store, nextContainerId, worktrees, caddy, budget>>

\* updateEnvironmentStatus(db, environment.id, "stopped")
SetStatusStopped(p) ==
    LET l == procs[p]
    IN  /\ l.pc = "setStopped"
        /\ environments' = updateEnvironmentStatus(l.envId, "stopped")
        /\ SetProc(p, Goto(l, "t_getPM"))
        /\ UNCHANGED <<projects, nextEnvId, envFiles, portMappings,
                       runtime, worktrees, caddy, budget>>

\* const portMappings = getPortMappings(db, environment.id), then the loop
StopGetPortMappings(p) ==
    LET l == procs[p]
    IN  /\ l.pc = "t_getPM"
        /\ SetProc(p, EnterRemoveRoutes([l EXCEPT !.pms = getPortMappings(l.envId)]))
        /\ UNCHANGED <<store, runtime, worktrees, caddy, budget>>


(***************************************************************************)
(* remove (commands/remove.ts).                                            *)
(***************************************************************************)
RemoveBegin(p, name) ==
    /\ LowestFree(p)
    /\ opsLeft > 0
    /\ opsLeft' = opsLeft - 1
    /\ SetProc(p, [Fresh EXCEPT !.op = "remove", !.pc = "rm_lookup",
                               !.envName = name])
    /\ UNCHANGED <<store, runtime, worktrees, caddy, drift, faults, world>>

\* getEnvironmentByName; "Environment not found"; getPortMappings
RemoveLookup(p) ==
    LET l == procs[p]
        rows == getEnvironmentByName(l.envName)
    IN  /\ l.pc = "rm_lookup"
        /\ IF rows = {}
           THEN SetProc(p, Throw(l, "notfound"))
           ELSE \E e \in rows :
                   SetProc(p, EnterRemoveRoutes(
                                 [l EXCEPT !.envId = e.id,
                                           !.containerId = e.containerId,
                                           !.pms = getPortMappings(e.id)]))
        /\ UNCHANGED <<store, runtime, worktrees, caddy, budget>>

\* await removeContainer(environment.containerId): DELETE ...?force=true
RemoveContainer(p) ==
    LET l == procs[p]
    IN  /\ l.pc = "rm_container"
        /\ IF dockerFetchThrows(IF ContainerById(l.containerId) = {} THEN 404 ELSE 204)
           THEN /\ SetProc(p, Throw(l, "error"))
                /\ UNCHANGED containers
           ELSE /\ containers' = containers \ ContainerById(l.containerId)
                /\ SetProc(p, Goto(l, "rm_deletePM"))
        /\ UNCHANGED <<store, nextContainerId, worktrees, caddy, budget>>

\* deletePortMappings(db, environment.id)
RemoveDeletePortMappings(p) ==
    LET l == procs[p]
    IN  /\ l.pc = "rm_deletePM"
        /\ portMappings' = deletePortMappings(l.envId)
        /\ SetProc(p, Goto(l, "rm_deleteEnvFiles"))
        /\ UNCHANGED <<projects, environments, nextEnvId, envFiles,
                       runtime, worktrees, caddy, budget>>

\* deleteEnvFiles(db, environment.id)
RemoveDeleteEnvFiles(p) ==
    LET l == procs[p]
    IN  /\ l.pc = "rm_deleteEnvFiles"
        /\ envFiles' = deleteEnvFiles(l.envId)
        /\ SetProc(p, Goto(l, "rm_deleteEnv"))
        /\ UNCHANGED <<projects, environments, nextEnvId, portMappings,
                       runtime, worktrees, caddy, budget>>

\* deleteEnvironment(db, environment.id); rows referencing it make it throw
RemoveDeleteEnvironment(p) ==
    LET l == procs[p]
    IN  /\ l.pc = "rm_deleteEnv"
        /\ IF EnvironmentReferenced(l.envId)
           THEN /\ SetProc(p, Throw(l, "error"))
                /\ UNCHANGED environments
           ELSE /\ environments' = deleteEnvironment(l.envId)
                /\ SetProc(p, Finish(l))
        /\ UNCHANGED <<projects, nextEnvId, envFiles, portMappings,
                       runtime, worktrees, caddy, budget>>

(***************************************************************************)
(* branch (commands/shell.ts).                                             *)
(***************************************************************************)
BranchBegin(p, name, newBranch) ==
    /\ LowestFree(p)
    /\ opsLeft > 0
    /\ opsLeft' = opsLeft - 1
    /\ SetProc(p, [Fresh EXCEPT !.op = "branch", !.pc = "b_lookup",
                               !.srcName = name, !.branch = newBranch])
    /\ UNCHANGED <<store, runtime, worktrees, caddy, drift, faults, world>>

\* sourceEnv = getEnvironmentByName(db, envName); the project row by id;
\* newEnvName = `${projectName}-${slugify(newBranch)}`
BranchLookup(p) ==
    LET l == procs[p]
        rows == getEnvironmentByName(l.srcName)
    IN  /\ l.pc = "b_lookup"
        /\ IF rows = {}
           THEN SetProc(p, Throw(l, "notfound"))
           ELSE \E e \in rows :
                   SetProc(p, [l EXCEPT
                       !.srcId = e.id, !.projectId = e.projectId, !.cfg = e.cfg,
                       !.projectName = projects[e.projectId].name,
                       !.repo = projects[e.projectId].repoPath,
                       !.envName = EnvNameOf(projects[e.projectId].name, l.branch),
                       !.pc = "worktree"])
        /\ UNCHANGED <<store, runtime, worktrees, caddy, budget>>

\* newEnvironment = insertEnvironment(...); name is UNIQUE
BranchInsertEnvironment(p) ==
    LET l == procs[p]
    IN  /\ l.pc = "b_insertEnv"
        /\ IF getEnvironmentByName(l.envName) # {}
           THEN /\ SetProc(p, Throw(l, "error"))
                /\ UNCHANGED <<environments, nextEnvId>>
           ELSE /\ environments' =
                       insertEnvironment(l.projectId, l.envName, l.branch, l.cfg)
                /\ nextEnvId' = nextEnvId + 1
                /\ SetProc(p, [l EXCEPT !.envId = nextEnvId, !.pc = "b_envFiles"])
        /\ UNCHANGED <<projects, envFiles, portMappings,
                       runtime, worktrees, caddy, budget>>

\* for (const envFile of getEnvFiles(db, sourceEnv.id)) upsertEnvFile(new, ...)
BranchCopyEnvFiles(p) ==
    LET l == procs[p]
        sourceEnvFiles == { [relativePath |-> x.relativePath, content |-> x.content]
                            : x \in { y \in envFiles : y.environmentId = l.srcId } }
    IN  /\ l.pc = "b_envFiles"
        /\ IF sourceEnvFiles = {} \/ EnvironmentExists(l.envId)
           THEN /\ envFiles' = upsertEnvFiles(l.envId, sourceEnvFiles)
                /\ SetProc(p, Goto(l, "b_pull"))
           ELSE /\ SetProc(p, Throw(l, "error"))
                /\ UNCHANGED envFiles
        /\ UNCHANGED <<projects, environments, nextEnvId, portMappings,
                       runtime, worktrees, caddy, budget>>

\* await pullImage(image), then the port-mapping loop starts
BranchPullImage(p) ==
    LET l == procs[p]
    IN  /\ l.pc = "b_pull"
        /\ SetProc(p, [l EXCEPT !.i = 1, !.pc = "portRead"])
        /\ UNCHANGED <<store, runtime, worktrees, caddy, budget>>

\* const containerId = await createContainer({ name: newEnvName, ... }):
\* the runtime refuses a name that is taken (409)
BranchCreateContainer(p) ==
    LET l == procs[p]
        status == IF \E c \in containers : c.name = l.envName THEN 409 ELSE 201
    IN  /\ l.pc = "b_createContainer"
        /\ IF dockerFetchThrows(status)
           THEN /\ SetProc(p, Throw(l, "error"))
                /\ UNCHANGED runtime
           ELSE /\ containers' = containers \cup
                       { [id |-> nextContainerId, name |-> l.envName,
                          project |-> l.projectName, env |-> l.envName,
                          running |-> FALSE] }
                /\ nextContainerId' = nextContainerId + 1
                /\ SetProc(p, [l EXCEPT !.containerId = nextContainerId,
                                        !.pc = "setContainer"])
        /\ UNCHANGED <<store, worktrees, caddy, budget>>

(***************************************************************************)
(* The environment of the commands: failing gateways and out-of-band       *)
(* changes.                                                                *)
(***************************************************************************)
\* the pending call to the worktree gateway, the runtime or the devcontainer
\* CLI fails (a non-2xx answer other than 404, a non-zero exit code)
GatewayFault(p) ==
    LET l == procs[p]
    IN  /\ faults > 0
        /\ faults' = faults - 1
        /\ \/ l.pc \in {"c_inspect", "c_up", "caddy", "startContainer",
                        "stopContainer", "rm_container", "b_pull",
                        "b_createContainer"}
           \/ l.pc = "worktree" /\ <<l.repo, l.branch>> \notin worktrees
        /\ SetProc(p, IF l.pc = "c_inspect" THEN createAfterInspect(l, 500, FALSE)
                      ELSE Throw(l, "error"))
        /\ UNCHANGED <<store, runtime, worktrees, caddy, opsLeft, drift, world>>

\* no command is running
Quiescent == \A p \in Procs : procs[p].pc \in {"idle", "done"}

\* a container is stopped behind the tool's back, between two commands
ContainerStopsOutOfBand ==
    /\ drift > 0
    /\ Quiescent
    /\ drift' = drift - 1
    /\ \E c \in containers :
           /\ c.running
           /\ containers' = SetRunning(c.id, FALSE)
    /\ UNCHANGED <<store, nextContainerId, worktrees, caddy, procs,
                   opsLeft, faults, world>>

\* a container is removed behind the tool's back, between two commands
ContainerRemovedOutOfBand ==
    /\ drift > 0
    /\ Quiescent
    /\ drift' = drift - 1
    /\ \E c \in containers : containers' = containers \ {c}
    /\ UNCHANGED <<store, nextContainerId, worktrees, caddy, procs,
                   opsLeft, faults, world>>

Begin(p) ==
    \/ \E repo \in world.repos, b \in world.branches : CreateBegin(p, repo, b)
    \/ \E name \in world.names, b \in world.newBranches : BranchBegin(p, name, b)
    \/ \E name \in world.names : StartBegin(p, name)
    \/ \E name \in world.names : StopBegin(p, name)
    \/ \E name \in world.names : RemoveBegin(p, name)

Step(p) ==
    \/ CreateGetProject(p) \/ CreateInsertProject(p) \/ EnsureWorktree(p)
    \/ CreateGetEnvironment(p) \/ CreateInspect(p) \/ CreateDemote(p)
    \/ CreateInsertEnvironment(p) \/ CreateEnvFiles(p)
    \/ CreateDeletePortMappings(p) \/ PortRead(p) \/ PortInsert(p)
    \/ CreateDevcontainerUp(p) \/ SetContainer(p) \/ SetStatusRunning(p)
    \/ EnsureCaddyRunning(p)
    \/ CaddyGetServer(p) \/ CaddyPutServer(p) \/ CaddyPutId(p)
    \/ CaddyPostRoute(p) \/ CaddyDeleteId(p)
    \/ StartStopLookup(p) \/ StartContainer(p) \/ StopContainer(p)
    \/ SetStatusStopped(p) \/ StopGetPortMappings(p)
    \/ RemoveLookup(p) \/ RemoveContainer(p) \/ RemoveDeletePortMappings(p)
    \/ RemoveDeleteEnvFiles(p) \/ RemoveDeleteEnvironment(p)
    \/ BranchLookup(p) \/ BranchInsertEnvironment(p) \/ BranchCopyEnvFiles(p)
    \/ BranchPullImage(p) \/ BranchCreateContainer(p)

Next ==
    \/ \E p \in Procs : Begin(p)
    \/ \E p \in Procs : Step(p)
    \/ \E p \in Procs : CaddyFault(p)
    \/ \E p \in Procs : GatewayFault(p)
    \/ ContainerStopsOutOfBand
    \/ ContainerRemovedOutOfBand

\* every gateway answers what its state says
NextHonest ==
    \/ \E p \in Procs : Begin(p)
    \/ \E p \in Procs : Step(p)
    \/ ContainerStopsOutOfBand
    \/ ContainerRemovedOutOfBand

\* no out-of-band change
NextConc ==
    \/ \E p \in Procs : Begin(p)
    \/ \E p \in Procs : Step(p)
    \/ \E p \in Procs : CaddyFault(p)
    \/ \E p \in Procs : GatewayFault(p)

\* one command at a time; gateways may fail; containers may drift
Spec == Init /\ [][Next]_vars

\* one command at a time; gateways answer what their state says
SpecHonest == InitHonest /\ [][NextHonest]_vars

\* one command at a time, four commands in a row
SpecLong == InitLong /\ [][Next]_vars

\* one command at a time, on two repositories
SpecCollide == InitCollide /\ [][Next]_vars

\* no failing gateway and no out-of-band change
NextRace ==
    \/ \E p \in Procs : Begin(p)
    \/ \E p \in Procs : Step(p)

\* two commands at a time, three in a row, honest gateways
SpecRace == InitRace /\ [][NextRace]_vars

\* two commands at a time
SpecConc == InitConc /\ [][NextConc]_vars

(***************************************************************************)
(* Properties of the port allocator (db/database.ts, commands/create.ts,   *)
(* commands/shell.ts).                                                     *)
(***************************************************************************)
\* the rows of port_mappings, by position
PortRows == 1..Len(portMappings)

\* a stored row holds the host port / the hostname
HostPortHeld(hostPort) == \E k \in PortRows : portMappings[k].hostPort = hostPort
HostnameHeld(hostname) == \E k \in PortRows : portMappings[k].hostname = hostname

\* the hostname a command at its insertPortMapping call is about to insert
HostnameAt(l) ==
    generateHostname(l.projectName, l.branch, resolveForwardPorts(l.cfg)[l.i])

\* C1: in every reachable state of the store, whatever commands ran, failed or
\* overlapped, no two rows of port_mappings have the same hostPort.
C1_HostPortUnique ==
    \A j, k \in PortRows : j # k => portMappings[j].hostPort # portMappings[k].hostPort

\* C1 is about several rows: rows of two different environments are stored
C1_Witness ==
    \E j, k \in PortRows :
        portMappings[j].environmentId # portMappings[k].environmentId

\* C2: in every reachable state of the store, no two rows of port_mappings
\* have the same hostname.
C2_HostnameUnique ==
    \A j, k \in PortRows : j # k => portMappings[j].hostname # portMappings[k].hostname

\* C2's case: a command is about to insert, with a host port nobody holds, a
\* hostname that a stored row already holds
C2_Witness ==
    \E p \in Procs :
        /\ procs[p].pc = "portInsert"
        /\ ~HostPortHeld(procs[p].hostPort)
        /\ HostnameHeld(HostnameAt(procs[p]))

\* C9: the allocator's read (getNextAvailableHostPort) and the insert are two
\* steps, so two overlapping commands can obtain the same hostPort; what the
\* code does with the race is that the command that inserts second throws and
\* stores nothing.
C9_RaceLoserThrows ==
    [][\A p \in Procs :
          (/\ procs[p].pc = "portInsert"
           /\ procs'[p] # procs[p]
           /\ HostPortHeld(procs[p].hostPort))
          => (/\ procs'[p].pc = "done"
              /\ procs'[p].outcome = "error"
              /\ portMappings' = portMappings)]_vars

\* C9's interleaving: two commands have both read the same hostPort and
\* neither has inserted it yet
C9_Witness ==
    \E p, q \in Procs :
        /\ p # q
        /\ procs[p].pc = "portInsert"
        /\ procs[q].pc = "portInsert"
        /\ procs[p].hostPort = procs[q].hostPort
        /\ ~HostPortHeld(procs[p].hostPort)

\* C10: a row that branch inserts into port_mappings has a hostPort and a
\* hostname that no row stored before it has, whether that row belongs to the
\* source environment or to any other.
C10_BranchPortsFresh ==
    [][\A p \in Procs :
          (/\ procs[p].op = "branch"
           /\ procs[p].pc = "portInsert"
           /\ portMappings' # portMappings)
          => (/\ Len(portMappings') = Len(portMappings) + 1
              /\ \A k \in PortRows :
                    /\ portMappings'[k] = portMappings[k]
                    /\ portMappings[k].hostPort
                           # portMappings'[Len(portMappings')].hostPort
                    /\ portMappings[k].hostname
                           # portMappings'[Len(portMappings')].hostname)]_vars

\* C10's case: branch completed next to the rows of its source, and a later
\* branch was refused a hostname that the first one holds
C10_Witness ==
    \E p \in Procs :
        /\ procs[p].op = "branch"
        /\ procs[p].outcome = "error"
        /\ procs[p].at = "portInsert"
        /\ \E j, k \in PortRows :
              /\ portMappings[j].environmentId = procs[p].srcId
              /\ portMappings[k].environmentId \notin {procs[p].srcId, procs[p].envId}

(***************************************************************************)
(* Properties of create (commands/create.ts).                              *)
(***************************************************************************)
\* the command of slot p returns normally in this step
Returns(p) ==
    /\ procs[p].pc # "done"
    /\ procs'[p].pc = "done"
    /\ procs'[p].outcome = "ok"

\* the rows of a table of environments that carry the name
EnvRows(envs, name) == { e \in envs : e.name = name }

\* when command l began, the store held what an aborted create of the same
\* (project, branch) leaves: the row, still 'created' and without container,
\* its port mappings, and no container built for it
AbortedBefore(l) ==
    /\ l.snap # <<>>
    /\ \E e \in EnvRows(l.snap.environments, l.envName) :
          /\ e.status = "created"
          /\ e.containerId = NoId
          /\ e.branch = l.branch
          /\ Len(RowsOf(l.snap.portMappings, e.id)) = Len(resolveForwardPorts(l.cfg))
    /\ \A c \in l.snap.containers : ~(c.project = l.projectName /\ c.env = l.envName)

\* what a completed create of command l must have left in the store and the
\* runtime: one row of that name, one mapping per forwarded port, one container
OneOfEach(l, envs, pms, cs) ==
    LET forwardPorts == resolveForwardPorts(l.cfg)
        rows == RowsOf(pms, l.envId)
    IN  /\ Cardinality(EnvRows(envs, l.envName)) = 1
        /\ \A e \in EnvRows(envs, l.envName) : e.id = l.envId
        /\ Len(rows) = Len(forwardPorts)
        /\ \A k \in 1..Len(rows) :
              /\ rows[k].containerPort = forwardPorts[k]
              /\ rows[k].hostname =
                     generateHostname(l.projectName, l.branch, forwardPorts[k])
        /\ \A j, k \in 1..Len(pms) :
              j # k => /\ pms[j].hostPort # pms[k].hostPort
                       /\ pms[j].hostname # pms[k].hostname
        /\ Cardinality({ c \in cs : c.project = l.projectName /\ c.env = l.envName }) = 1

\* C3: when a create returns normally, the store holds exactly one environment
\* row of its name, exactly one port mapping per forwarded container port for
\* it, without duplicate hostPort or hostname, and the runtime holds exactly
\* one container for it; in particular when it retried a create that was
\* aborted after its rows were inserted and before a container was built.
C3_RetryLeavesOneOfEach ==
    [][\A p \in Procs :
          (procs[p].op = "create" /\ Returns(p))
          => OneOfEach(procs[p], environments', portMappings', containers')]_vars

\* C3's case: the retry of an aborted create has returned normally
C3_Witness ==
    \E p \in Procs :
        /\ procs[p].op = "create"
        /\ procs[p].pc = "done"
        /\ procs[p].outcome = "ok"
        /\ AbortedBefore(procs[p])

\* the stored container of command l is gone or not running
NotActuallyRunning(l) == \A c \in ContainerById(l.containerId) : ~c.running

\* C4: a create that finds the status Running while the stored container is
\* gone or stopped is not rejected: it sets the status to Stopped, goes on
\* with remove-existing set, and when it returns the environment is Running
\* on a container it built, with its routes registered.
C4_StaleRunningIsDemoted ==
    [][\A p \in Procs :
          LET l == procs[p]
              n == procs'[p]
          IN  /\ (l.pc = "c_inspect" /\ n # l /\ NotActuallyRunning(l)
                  /\ (Ok(n.res) \/ n.res = 404))
                 => n.pc = "c_demote"
              /\ (l.pc = "c_demote" /\ n # l)
                 => /\ n.pc = "c_envFiles"
                    /\ n.removeExisting
                    /\ \A e \in environments' : e.id = l.envId => e.status = "stopped"
              /\ (l.op = "create" /\ l.stale /\ l.pc # "done" /\ n.pc = "done")
                 => /\ n.outcome # "conflict"
                    /\ n.outcome = "ok" =>
                          /\ \A e \in environments' :
                                e.id = l.envId => /\ e.status = "running"
                                                  /\ e.containerId = l.containerId
                          /\ \E c \in containers' : c.id = l.containerId /\ c.running
                          /\ l.containerId \notin { c.id : c \in l.snap.containers }
                          /\ \A k \in 1..Len(l.pms) :
                                \E j \in 1..Len(caddy'.routes) :
                                    caddy'.routes[j] = RouteOf(l.envName, l.pms[k])]_vars

\* C4's case: a create that found the stale Running status has returned
C4_Witness ==
    \E p \in Procs :
        /\ procs[p].op = "create"
        /\ procs[p].stale
        /\ procs[p].pc = "done"
        /\ procs[p].outcome = "ok"

\* C5: a create that fails with Conflict has changed nothing: the rows of the
\* store, the worktrees, the containers and the routes are what they were
\* when it began.
C5_ConflictMutatesNothing ==
    [][\A p \in Procs :
          (procs[p].pc = "c_inspect" /\ procs'[p].pc = "done"
           /\ procs'[p].outcome = "conflict")
          => Snapshot' = procs[p].snap]_vars

(***************************************************************************)
(* Properties of the route synchronizer (tunnel/caddy.ts).                 *)
(***************************************************************************)
\* the call of addRoute that slot p is in returns normally in this step
AddRouteReturns(p) ==
    /\ procs[p].pc \in {"ar_putId", "ar_post"}
    /\ procs'[p] # procs[p]
    /\ procs'[p].pc # "ar_post"
    /\ ~(procs'[p].pc = "done" /\ procs'[p].outcome = "error")

\* the positions of a sequence of routes that carry the id
WithId(routes, id) == { k \in 1..Len(routes) : routes[k].id = id }

\* C6: a call of addRoute that returns, whether the first or a repeated one
\* with the same arguments, leaves exactly one route registered under its id,
\* and that route has its hostname and its upstream host port.
C6_UpsertLeavesOneRoute ==
    [][\A p \in Procs :
          AddRouteReturns(p) =>
              LET route == RouteOf(procs[p].envName, procs[p].pms[procs[p].r])
              IN  /\ Cardinality(WithId(caddy'.routes, route.id)) = 1
                  /\ \A k \in WithId(caddy'.routes, route.id) :
                        caddy'.routes[k] = route]_vars

\* C7: the POST that appends the route is pending only after PUT /id/{id}
\* answered not-found, and no two routes of the proxy carry the same id.
C7_PostOnlyAfterNotFound ==
    /\ \A p \in Procs : procs[p].pc = "ar_post" => procs[p].res = 404
    /\ \A j, k \in 1..Len(caddy.routes) :
          j # k => caddy.routes[j].id # caddy.routes[k].id

\* C8: when DELETE /id/{id} answers not-found, removeRoute returns without an
\* error and the proxy's routes are unchanged; on any other non-2xx answer
\* the command throws.
C8_RemoveRouteNotFoundIsSuccess ==
    [][\A p \in Procs :
          LET l == procs[p]
              n == procs'[p]
          IN  (l.pc = "rr_delete" /\ n # l)
              => /\ n.res = 404 => /\ ~(n.pc = "done" /\ n.outcome = "error")
                                   /\ caddy' = caddy
                 /\ (~Ok(n.res) /\ n.res # 404)
                    => (n.pc = "done" /\ n.outcome = "error" /\ caddy' = caddy)]_vars

\* C8's case: stop has returned normally although the proxy did not know
\* the last route it removed
C8_Witness ==
    \E p \in Procs :
        /\ procs[p].op = "stop"
        /\ procs[p].pc = "done"
        /\ procs[p].outcome = "ok"
        /\ procs[p].res = 404

(***************************************************************************)
(* Properties of branch (commands/shell.ts).                               *)
(***************************************************************************)
\* what belongs to the environment with the id and the name: its row, its
\* port mappings, its container and the routes under its route ids
ViewOf(envId, name, envs, pms, cs, routes) ==
    LET rows == { e \in envs : e.id = envId }
        ids  == { formatRouteId(RouteKey(name, RowsOf(pms, envId)[k].containerPort))
                  : k \in 1..Len(RowsOf(pms, envId)) }
    IN  [row |-> rows,
         portMappings |-> RowsOf(pms, envId),
         containers |-> { c \in cs : \/ \E e \in rows : c.id = e.containerId
                                     \/ c.env = name },
         routes |-> { routes[k] : k \in { j \in 1..Len(routes) : routes[j].id \in ids } }]

\* C11: no step of a branch command, whether the command goes on to succeed
\* or throws part-way, changes the source environment: its row (status,
\* containerId), its port mappings, its container and its routes stay as
\* they are.
C11_BranchLeavesSourceUntouched ==
    [][\A p \in Procs :
          (procs[p].op = "branch" /\ procs[p].srcId # NoId /\ procs'[p] # procs[p])
          => ViewOf(procs[p].srcId, procs[p].srcName,
                    environments', portMappings', containers', caddy'.routes)
             = ViewOf(procs[p].srcId, procs[p].srcName,
                      environments, portMappings, containers, caddy.routes)]_vars

\* C11's case: a branch has returned normally from a source that is Running,
\* has a container and has its routes registered
C11_Witness ==
    \E p \in Procs :
        /\ procs[p].op = "branch"
        /\ procs[p].pc = "done"
        /\ procs[p].outcome = "ok"
        /\ LET v == ViewOf(procs[p].srcId, procs[p].srcName,
                           environments, portMappings, containers, caddy.routes)
           IN  /\ \E e \in v.row : e.status = "running"
               /\ Len(v.portMappings) = Cardinality(v.routes)
               /\ v.containers # {}
               /\ v = ViewOf(procs[p].srcId, procs[p].srcName,
                             procs[p].snap.environments, procs[p].snap.portMappings,
                             procs[p].snap.containers, procs[p].snap.caddy.routes)

(***************************************************************************)
(* Properties of the allocator and of the commands' results.               *)
(***************************************************************************)
\* C12 as stated: with no port mapping stored getNextAvailableHostPort
\* returns the range start, and after a mapping with hostPort P is inserted
\* it returns P + 1.
C12_NextAfterInsert ==
    [][/\ Len(portMappings') = 0 => getNextAvailableHostPort' = HOST_PORT_RANGE_START
       /\ Len(portMappings') = Len(portMappings) + 1
          => getNextAvailableHostPort' = portMappings'[Len(portMappings')].hostPort + 1]_vars

\* C12, amended: with no port mapping stored getNextAvailableHostPort
\* returns the range start; otherwise it returns the largest stored hostPort
\* plus one, which is P + 1 after the insert of P only when no stored
\* hostPort is larger than P.
C12_NextIsMaxPlusOne ==
    IF Len(portMappings) = 0
    THEN getNextAvailableHostPort = HOST_PORT_RANGE_START
    ELSE /\ \A k \in PortRows : portMappings[k].hostPort < getNextAvailableHostPort
         /\ \E k \in PortRows : portMappings[k].hostPort + 1 = getNextAvailableHostPort

\* C12's case: the mapping inserted last does not hold the largest hostPort
C12_Witness ==
    /\ Len(portMappings) > 1
    /\ \E k \in PortRows :
          portMappings[k].hostPort > portMappings[Len(portMappings)].hostPort

\* the store was empty when command l began
BeganOnEmptyStore(l) ==
    /\ l.snap # <<>>
    /\ l.snap.projects = <<>>
    /\ l.snap.environments = {}
    /\ l.snap.portMappings = <<>>

\* C13: a create that began on an empty store and returns normally has
\* stored, for forwarded ports p1..pn, exactly n port mappings of the new
\* environment, the i-th with containerPort pi, hostPort 49200 + i - 1 and
\* the hostname of (project, branch, pi), and the status Running; for "demo",
\* "main" and the default port that is {3000, 49200, "demo-main.localhost"}.
C13_FirstCreateAllocation ==
    /\ [][\A p \in Procs :
            (procs[p].op = "create" /\ Returns(p) /\ BeganOnEmptyStore(procs[p]))
            => LET l == procs[p]
                   ports == IF Len(l.cfg) > 0 THEN l.cfg ELSE <<3000>>
               IN  /\ Len(portMappings') = Len(ports)
                   /\ \A i \in 1..Len(ports) :
                         portMappings'[i] =
                             [environmentId |-> l.envId, containerPort |-> ports[i],
                              hostPort |-> 49200 + i - 1,
                              hostname |-> generateHostname(l.projectName, l.branch,
                                                            ports[i])]
                   /\ \A e \in environments' : e.id = l.envId /\ e.status = "running"
                   /\ environments' # {}]_vars
    /\ [](/\ resolveForwardPorts(<<>>) = <<3000>>
          /\ generateHostname(<<"demo">>, <<"main">>, 3000)
                 = <<"demo", "-", "main", ".localhost">>
          /\ HOST_PORT_RANGE_START = 49200)

\* C13's case: a create that began on an empty store has returned normally
C13_Witness ==
    \E p \in Procs :
        /\ procs[p].op = "create"
        /\ procs[p].pc = "done"
        /\ procs[p].outcome = "ok"
        /\ BeganOnEmptyStore(procs[p])
        /\ Len(portMappings) = 2

(***************************************************************************)
(* Properties of start and stop (commands/start.ts, the stop command).     *)
(***************************************************************************)
\* the ids under which the routes of an environment are registered
RouteIdsOf(name, pms, envId) ==
    { formatRouteId(RouteKey(name, RowsOf(pms, envId)[k].containerPort))
      : k \in 1..Len(RowsOf(pms, envId)) }

\* C14: a stop that returns normally leaves the stored container stopped,
\* the status Stopped, and no route registered under the id of (name,
\* containerPort) for any port mapping of the environment.
C14_StopLeavesNoRoute ==
    [][\A p \in Procs :
          (procs[p].op = "stop" /\ Returns(p))
          => LET l == procs[p]
             IN  /\ \A c \in containers' : c.id = l.containerId => ~c.running
                 /\ \A e \in environments' : e.id = l.envId => e.status = "stopped"
                 /\ \A id \in RouteIdsOf(l.envName, portMappings', l.envId) :
                       WithId(caddy'.routes, id) = {}]_vars

\* in the state a stop found, the environment was Running and each of its
\* port mappings had its route registered
RunningWithRoutes(snap, envId, name) ==
    /\ snap # <<>>
    /\ \E e \in snap.environments : e.id = envId /\ e.status = "running"
    /\ Len(RowsOf(snap.portMappings, envId)) > 0
    /\ \A k \in 1..Len(RowsOf(snap.portMappings, envId)) :
          \E j \in 1..Len(snap.caddy.routes) :
              snap.caddy.routes[j] = RouteOf(name, RowsOf(snap.portMappings, envId)[k])

C16_LookupFailsWithoutEffect ==
    [][\A p \in Procs :
          LET l == procs[p]
              n == procs'[p]
              rows == EnvRows(environments, l.envName)
          IN  (l.op \in {"start", "stop"} /\ l.pc = "lookup" /\ n # l)
              => /\ rows = {} => n.pc = "done" /\ n.outcome = "notfound"
                 /\ (\E e \in rows : e.containerId = NoId)
                    => n.pc = "done" /\ n.outcome = "nocontainer"
                 /\ (rows = {} \/ \E e \in rows : e.containerId = NoId)
                    => /\ environments' = environments
                       /\ containers' = containers
                       /\ caddy' = caddy]_vars

\* C16's case: a start has failed on an environment without container
C16_Witness ==
    \E p \in Procs :
        /\ procs[p].op = "start"
        /\ procs[p].pc = "done"
        /\ procs[p].outcome = "nocontainer"
        /\ \E e \in EnvRows(environments, procs[p].envName) :
               e.containerId = NoId /\ e.status = "created"

(***************************************************************************)
(* Properties of the status of an environment.                             *)
(***************************************************************************)
\* C17: the status of an environment row changes only from Created to
\* Running, from Running to Stopped and from Stopped to Running: never back
\* to Created, and never from Created to Stopped.
C17_StatusTransitions ==
    [][\A e \in environments, n \in environments' :
          (e.id = n.id /\ e.status # n.status)
          => <<e.status, n.status>> \in { <<"created", "running">>,
                                          <<"running", "stopped">>,
                                          <<"stopped", "running">> }]_vars

\* C17's case: the whole cycle; a start has returned normally for an
\* environment that was Running, was stopped, and is Running again
C17_Witness ==
    \E p \in Procs :
        /\ procs[p].op = "start"
        /\ procs[p].pc = "done"
        /\ procs[p].outcome = "ok"
        /\ procs[p].prev # <<>>
        /\ \E e \in procs[p].prev.environments :
               e.id = procs[p].envId /\ e.status = "running"
        /\ \E e \in procs[p].snap.environments :
               e.id = procs[p].envId /\ e.status = "stopped"
        /\ \E e \in environments : e.id = procs[p].envId /\ e.status = "running"

\* C18: when a call to the runtime, the devcontainer CLI or the proxy fails
\* during a create, a branch, a start or a stop on an environment that is
\* Created, Running or Stopped, and the command throws, the status of the
\* environment becomes Error.
C18_FailureRecordsError ==
    [][\A p \in Procs :
          (/\ procs[p].op \in {"create", "branch", "start", "stop"}
           /\ procs[p].pc # "done"
           /\ procs'[p].pc = "done"
           /\ procs'[p].outcome = "error"
           /\ \E e \in environments : e.id = procs[p].envId)
          => \A e \in environments' : e.id = procs[p].envId => e.status = "error"]_vars

\* C19: create records the status Running only after the container id is
\* recorded and every route is synchronized: while a create is still
\* synchronizing routes its environment is not Running, and a create that
\* throws during route synchronization does not leave it Running.
C19_RunningOnlyAfterRoutes ==
    \A p \in Procs :
        LET l == procs[p]
            syncing == {"caddy", "ar_get", "ar_putServer", "ar_putId", "ar_post"}
        IN  (/\ l.op = "create"
             /\ \/ l.pc \in syncing
                \/ l.pc = "done" /\ l.outcome = "error" /\ l.at \in syncing)
            => \A e \in environments : e.id = l.envId => e.status # "running"

\* the rows of its environment that create l found, when it began, with a
\* status other than Running
ResumedRows(l) ==
    IF l.op = "create" /\ l.snap # <<>>
    THEN { e \in EnvRows(l.snap.environments, l.envName) : e.status # "running" }
    ELSE {}

\* C20: a create whose environment row exists with a status other than
\* Running reuses the row and continues: it leaves the one row of that name
\* under its id, throws no already-exists error (neither the Conflict nor
\* the UNIQUE constraint of an insert), never calls inspect, and after
\* reading the row goes on with the environment files.
C20_ResumeReusesRow ==
    [][\A p \in Procs : \A e \in ResumedRows(procs[p]) :
          (procs'[p] # procs[p])
          => LET l == procs[p]
                 n == procs'[p]
             IN  /\ { x.id : x \in EnvRows(environments', l.envName) } = {e.id}
                 /\ Cardinality(environments') = Cardinality(environments)
                 /\ n.pc \notin {"c_inspect", "c_demote", "c_insertEnv"}
                 /\ n.outcome # "conflict"
                 /\ ~n.stale
                 /\ l.pc = "c_getEnv"
                    => /\ n.pc = "c_envFiles"
                       /\ n.envId = e.id
                       /\ n.removeExisting]_vars

\* C20's case: a create has returned normally on the row an earlier command
\* left Stopped, and the environment is Running under the same id
C20_Witness ==
    \E p \in Procs : \E e \in ResumedRows(procs[p]) :
        /\ e.status = "stopped"
        /\ procs[p].pc = "done"
        /\ procs[p].outcome = "ok"
        /\ procs[p].envId = e.id
        /\ \E x \in environments : x.id = e.id /\ x.status = "running"

(***************************************************************************)
(* Properties of failures.                                                 *)
(***************************************************************************)
\* the positions of a command at which it waits for the worktree gateway,
\* the runtime, the devcontainer CLI or the proxy
ExternalCalls ==
    {"worktree", "c_inspect", "c_up", "caddy", "ar_get", "ar_putServer",
     "ar_putId", "ar_post", "rr_delete", "startContainer", "stopContainer",
     "rm_container", "b_pull", "b_createContainer"}

\* the command of slot p throws in this step, at an external call
ThrowsAtExternalCall(p) ==
    /\ procs[p].pc \in ExternalCalls
    /\ procs'[p].pc = "done"
    /\ procs'[p].outcome = "error"

\* C21: when an external call fails inside create, the command ends at that
\* step and the step undoes nothing: the store, the worktrees, the
\* containers and the routes are what they were, and once the port mappings
\* were written the environment row and one mapping per forwarded port are
\* in the store.
C21_CreateAbortsWithoutRollback ==
    [][\A p \in Procs :
          (procs[p].op = "create" /\ ThrowsAtExternalCall(p))
          => LET l == procs[p]
             IN  /\ procs'[p].at = l.pc
                 /\ UNCHANGED <<store, runtime, worktrees, caddy>>
                 /\ l.pc \notin {"worktree", "c_inspect"}
                    => /\ \E e \in environments' : e.id = l.envId /\ e.name = l.envName
                       /\ Len(RowsOf(portMappings', l.envId))
                              = Len(resolveForwardPorts(l.cfg))]_vars

\* C21's case: a create has thrown at `devcontainer up` and the row and the
\* port mappings it wrote are in the store
C21_Witness ==
    \E p \in Procs :
        /\ procs[p].op = "create"
        /\ procs[p].pc = "done"
        /\ procs[p].outcome = "error"
        /\ procs[p].at = "c_up"
        /\ \E e \in environments : e.id = procs[p].envId /\ e.status = "created"
        /\ Len(RowsOf(portMappings, procs[p].envId)) = 2

\* C22: start and stop confirm the live state of the container before they
\* act: when one of them issues its request to the runtime, the stored
\* container exists and runs exactly when the stored status says Running.
C22_ActsOnConfirmedState ==
    \A p \in Procs :
        (procs[p].op \in {"start", "stop"}
         /\ procs[p].pc \in {"startContainer", "stopContainer"})
        => \E c \in containers :
              /\ c.id = procs[p].containerId
              /\ \A e \in environments :
                    e.id = procs[p].envId => (c.running <=> e.status = "running")

\* C23: a branch re-invoked after an attempt that was aborted once the row
\* of the new environment was inserted runs to completion: the command does
\* not throw where it inserts the row, and it leaves one row of the new name.
C23_BranchRetryCompletes ==
    [][\A p \in Procs :
          LET l == procs[p]
          IN  (/\ l.op = "branch"
               /\ l.pc = "b_insertEnv"
               /\ procs'[p] # l
               /\ \E e \in EnvRows(l.snap.environments, l.envName) :
                      e.status = "created")
              => /\ procs'[p].pc # "done"
                 /\ Cardinality(EnvRows(environments', l.envName)) = 1]_vars

(***************************************************************************)
(* Properties of the order of the proxy requests.                          *)
(***************************************************************************)
\* C24: within one create, branch or start the routes are synchronized one
\* after another: the command turns to the next port mapping only from the
\* last request of addRoute for the current one, when that request was
\* answered with success and the route is registered; it takes the mappings
\* in order, one at a time, beginning after ensureCaddyRunning.
C24_RoutesOneAfterAnother ==
    [][\A p \in Procs :
          LET l == procs[p]
              n == procs'[p]
          IN  (l.op \in {"create", "branch", "start"} /\ n.r # l.r)
              => \/ /\ l.r = 0
                    /\ n.r = 1
                    /\ l.pc = "caddy"
                    /\ n.pc = "ar_get"
                 \/ /\ l.r \in 1..(Len(l.pms) - 1)
                    /\ n.r = l.r + 1
                    /\ l.pc \in {"ar_putId", "ar_post"}
                    /\ n.pc = "ar_get"
                    /\ Ok(n.res)
                    /\ \E k \in 1..Len(caddy'.routes) :
                           caddy'.routes[k] = RouteOf(l.envName, l.pms[l.r])
                 \/ /\ n.r = 0
                    /\ n.pc \in {"done", "startContainer"}]_vars

\* C24's case: a command is synchronizing the route of its second port
\* mapping and the route of the first is registered
C24_Witness ==
    \E p \in Procs :
        /\ procs[p].op \in {"create", "branch", "start"}
        /\ procs[p].pc \in {"ar_get", "ar_putId", "ar_post"}
        /\ procs[p].r = 2
        /\ \E k \in 1..Len(caddy.routes) :
               caddy.routes[k] = RouteOf(procs[p].envName, procs[p].pms[1])
        /\ \A k \in 1..Len(caddy.routes) :
               caddy.routes[k].id # RouteOf(procs[p].envName, procs[p].pms[2]).id

(***************************************************************************)
(* Properties of ensureServerConfig (tunnel/caddy.ts).                     *)
(***************************************************************************)
\* C25: when two commands both saw the route collection absent and both PUT
\* the empty collection, the PUT that arrives second, which the proxy
\* answers with "already exists", does not make its addRoute throw.
C25_AlreadyExistsIsSuccess ==
    [][\A p \in Procs :
          LET l == procs[p]
              n == procs'[p]
          IN  (l.pc = "ar_putServer" /\ l.res = 404 /\ n # l /\ n.res = 409)
              => ~(n.pc = "done" /\ n.outcome = "error")]_vars

\* C26: the PUT of the empty route collection is pending only after the GET
\* of the collection answered not-found; it is never issued while the
\* collection exists.
C26_PutOnlyAfterNotFound ==
    \A p \in Procs :
        procs[p].pc = "ar_putServer" => (procs[p].res = 404 /\ ~caddy.server)

(***************************************************************************)
(* Properties of the HTTP boundary (api/server.ts).                        *)
(***************************************************************************)
\* the status of the response the HTTP boundary gives for a finished start
\* or stop: 404 and 400 are returned by the handler itself, every exception
\* is caught by the fetch handler and answered with 500
HttpStatusOf(l) ==
    CASE l.outcome = "ok" -> 200
      [] l.outcome = "notfound" -> 404
      [] l.outcome = "nocontainer" -> 400
      [] OTHER -> 500

\* C27: the HTTP boundary answers a start or a stop with 404 when the
\* environment is absent and also when its container is absent in the
\* runtime, with 400 when the request is invalid (no container associated),
\* and with 500 on every other failure.
C27_HttpStatusMapping ==
    [][\A p \in Procs :
          LET l == procs[p]
              n == procs'[p]
              absent == /\ l.pc \in {"startContainer", "stopContainer"}
                        /\ ContainerById(l.containerId) = {}
          IN  (l.op \in {"start", "stop"} /\ l.pc # "done" /\ n.pc = "done"
               /\ n.outcome # "ok")
              => /\ (l.pc = "lookup" /\ EnvRows(environments, l.envName) = {})
                    => HttpStatusOf(n) = 404
                 /\ absent => HttpStatusOf(n) = 404
                 /\ (l.pc = "lookup" /\ EnvRows(environments, l.envName) # {})
                    => HttpStatusOf(n) = 400
                 /\ (l.pc # "lookup" /\ ~absent) => HttpStatusOf(n) = 500]_vars

(***************************************************************************)
(* Properties of the environment table.                                    *)
(***************************************************************************)
\* C28: whatever creates and branches ran, one after another or at the same
\* time, the store holds at most one environment row per name, the rows of
\* one (projectId, branch) pair carry one name, and that name is the one
\* built from the project name and the branch.
C28_OneRowPerName ==
    /\ \A e1, e2 \in environments : e1.name = e2.name => e1 = e2
    /\ \A e1, e2 \in environments :
          (e1.projectId = e2.projectId /\ e1.branch = e2.branch)
          => e1.name = e2.name
    /\ \A e \in environments :
          /\ e.projectId \in 1..Len(projects)
          /\ e.name = EnvNameOf(projects[e.projectId].name, e.branch)

\* C28's case: of two creates of the same (project, branch) that ran at the
\* same time, one has inserted the row and the other has lost the insert
C28_Witness ==
    /\ Cardinality(environments) = 1
    /\ \E p, q \in Procs :
          /\ p # q
          /\ procs[p].op = "create"
          /\ procs[q].op = "create"
          /\ procs[p].envName = procs[q].envName
          /\ procs[p].pc = "done"
          /\ procs[p].outcome = "error"
          /\ procs[p].at = "c_insertEnv"
          /\ procs[q].envId # NoId

(***************************************************************************)
(* Properties of generateHostname (utils/envfiles.ts).                     *)
(***************************************************************************)
\* C29: the hostname of (project, branch, port) is "<project>-<branch>
\* .localhost" when the port is absent or is the default container port
\* 3000, and "<project>-<branch>-<port>.localhost" for every other port:
\* every port mapping a create or a branch stores carries that hostname for
\* the command's project, branch and container port.
C29_HostnameShape ==
    /\ [][\A p \in Procs :
            (procs[p].pc = "portInsert" /\ Len(portMappings') = Len(portMappings) + 1)
            => LET l == procs[p]
                   row == portMappings'[Len(portMappings')]
                   stem == l.projectName \o <<"-">> \o l.branch
               IN  row.hostname =
                       IF row.containerPort = 3000
                       THEN stem \o <<".localhost">>
                       ELSE stem \o <<"-", ToString(row.containerPort), ".localhost">>]_vars
    /\ [](/\ generateHostname(<<"myapp">>, <<"main">>, NoPort)
                 = <<"myapp", "-", "main", ".localhost">>
          /\ generateHostname(<<"myapp">>, <<"feature", "-", "auth">>, 3000)
                 = <<"myapp", "-", "feature", "-", "auth", ".localhost">>
          /\ generateHostname(<<"myapp">>, <<"main">>, 8080)
                 = <<"myapp", "-", "main", "-", "8080", ".localhost">>)

\* C29's case: the store holds a hostname without port suffix, of the
\* default port, and one with the suffix of another port
C29_Witness ==
    /\ \E k \in PortRows :
          /\ portMappings[k].containerPort = 3000
          /\ portMappings[k].hostname = <<"a", "-", "b", "-", "8080", ".localhost">>
    /\ \E k \in PortRows :
          /\ portMappings[k].containerPort = 8080
          /\ portMappings[k].hostname = <<"a", "-", "c", "-", "8080", ".localhost">>

(***************************************************************************)
(* The frame of start and stop.                                            *)
(***************************************************************************)
\* the routes that are not registered under one of the ids, in order
RoutesNotUnder(routes, ids) == SelectSeq(routes, LAMBDA r : r.id \notin ids)

\* C30: a step of start(name) or stop(name) changes nothing but the status
\* of the named environment, the routes under its ids and whether its
\* container runs: the port mappings, the projects, the env files, every
\* containerId, the rows of the other environments, their routes and their
\* containers are unchanged.
C30_StartStopFrame ==
    [][\A p \in Procs :
          LET l == procs[p]
              ids == RouteIdsOf(l.envName, portMappings, l.envId)
          IN  (l.op \in {"start", "stop"} /\ l.pc # "done" /\ procs'[p] # l)
              => /\ portMappings' = portMappings
                 /\ projects' = projects
                 /\ envFiles' = envFiles
                 /\ { [e EXCEPT !.status = "any"] : e \in environments' }
                        = { [e EXCEPT !.status = "any"] : e \in environments }
                 /\ { e \in environments' : e.name # l.envName }
                        = { e \in environments : e.name # l.envName }
                 /\ RoutesNotUnder(caddy'.routes, ids) = RoutesNotUnder(caddy.routes, ids)
                 /\ { c \in containers' : c.id # l.containerId }
                        = { c \in containers : c.id # l.containerId }
                 /\ { c.id : c \in containers' } = { c.id : c \in containers }]_vars

\* C30's case: a stop has returned normally while another environment is
\* Running with its routes registered
C30_Witness ==
    \E p \in Procs :
        /\ procs[p].op = "stop"
        /\ procs[p].pc = "done"
        /\ procs[p].outcome = "ok"
        /\ \E e \in environments :
              /\ e.name # procs[p].envName
              /\ e.status = "running"
              /\ RouteIdsOf(e.name, portMappings, e.id) # {}
              /\ \A id \in RouteIdsOf(e.name, portMappings, e.id) :
                    WithId(caddy.routes, id) # {}

(***************************************************************************)
(* Failures of the runtime inside start and stop.                          *)
(***************************************************************************)
\* C31: when the runtime does not answer the request of a start or a stop
\* with success, the command throws at once: the rows of the environments
\* (the status among them) and the routes of the proxy are what they were.
C31_RuntimeFailureAborts ==
    [][\A p \in Procs :
          LET l == procs[p]
              n == procs'[p]
              status == IF l.pc = "startContainer"
                        THEN DockerStartStatus(l.containerId)
                        ELSE DockerStopStatus(l.containerId)
          IN  (/\ l.op \in {"start", "stop"}
               /\ l.pc \in {"startContainer", "stopContainer"}
               /\ n # l
               /\ ~Ok(status) \/ faults' # faults)
              => /\ n.pc = "done"
                 /\ n.outcome = "error"
                 /\ environments' = environments
                 /\ caddy' = caddy
                 /\ containers' = containers]_vars

\* C31's case: a stop has thrown at the runtime call on an environment that
\* is recorded Running and whose routes are registered
C31_Witness ==
    \E p \in Procs :
        /\ procs[p].op = "stop"
        /\ procs[p].pc = "done"
        /\ procs[p].outcome = "error"
        /\ procs[p].at = "stopContainer"
        /\ \E e \in environments :
              /\ e.id = procs[p].envId
              /\ e.status = "running"
              /\ RouteIdsOf(e.name, portMappings, e.id) # {}
              /\ \A id \in RouteIdsOf(e.name, portMappings, e.id) :
                    WithId(caddy.routes, id) # {}

\* two commands at a time; every call a command awaits returns, so a
\* command that can take its next step eventually takes it
SpecLive ==
    /\ InitConc
    /\ [][NextConc]_vars
    /\ WF_vars(Step(1))
    /\ WF_vars(Step(2))

(***************************************************************************)
(* create and the containers that run.                                     *)
(***************************************************************************)
\* C32: create never removes or replaces a container that runs: when the
\* container of its environment runs, whatever status the row records, the
\* step of `devcontainer up` leaves that container in the runtime.
C32_RunningContainerIsKept ==
    [][\A p \in Procs :
          (procs[p].op = "create" /\ procs[p].pc = "c_up" /\ procs'[p] # procs[p])
          => \A c \in ContainersByLabel(procs[p].projectName, procs[p].envName) :
                c.running => c \in containers']_vars

\* C33: an environment whose recorded status is Running has a stored
\* containerId.
C33_RunningHasContainerId ==
    \A e \in environments : e.status = "running" => e.containerId # NoId

\* C33's case: next to an environment that is Running, with its container
\* id, the store holds the row of an aborted branch, without container id
C33_Witness ==
    /\ \E e \in environments : e.status = "running" /\ e.containerId # NoId
    /\ \E e \in environments : e.status = "created" /\ e.containerId = NoId

(***************************************************************************)
(* A start and a stop of one environment at the same time.                 *)
(***************************************************************************)
\* every port mapping of the environment has its route registered
RoutesRegistered(e) ==
    \A id \in RouteIdsOf(e.name, portMappings, e.id) : WithId(caddy.routes, id) # {}

\* no port mapping of the environment has a route registered
RoutesAbsent(e) ==
    \A id \in RouteIdsOf(e.name, portMappings, e.id) : WithId(caddy.routes, id) = {}

\* C34: when a start and a stop of the same environment ran at the same
\* time and both have returned normally, the environment is Running exactly
\* when its container runs and its routes are registered, and Stopped
\* exactly when its container is stopped and its routes are absent.
C34_StartStopRaceConsistent ==
    \A p, q \in Procs :
        (/\ procs[p].op = "start" /\ procs[p].pc = "done" /\ procs[p].outcome = "ok"
         /\ procs[q].op = "stop" /\ procs[q].pc = "done" /\ procs[q].outcome = "ok"
         /\ procs[p].envId = procs[q].envId)
        => \A e \in environments :
              e.id = procs[p].envId
              => \E c \in containers :
                    /\ c.id = e.containerId
                    /\ e.status \in {"running", "stopped"}
                    /\ e.status = "running" <=> (c.running /\ RoutesRegistered(e))
                    /\ e.status = "stopped" <=> (~c.running /\ RoutesAbsent(e))

(***************************************************************************)
(* Routes and the host ports of other environments.                        *)
(***************************************************************************)
\* the ids formatRouteId gives the routes of an environment of this name
RouteIdsOfName(name) ==
    { formatRouteId(RouteKey(name, cp)) : cp \in {DEFAULT_CONTAINER_PORT, 8080} }

\* C35: no route registered in the proxy forwards to a host port that the
\* store records in a port mapping of an environment other than the one
\* whose name the route's id was derived from.
C35_RoutePortBelongsToItsEnvironment ==
    \A k \in 1..Len(caddy.routes), j \in 1..Len(portMappings) :
        caddy.routes[k].port = portMappings[j].hostPort
        => \E e \in environments :
              /\ e.id = portMappings[j].environmentId
              /\ caddy.routes[k].id \in RouteIdsOfName(e.name)

(***************************************************************************)
(* Stopped environments and their routes.                                  *)
(***************************************************************************)
\* C36: when no command is in progress, an environment whose recorded
\* status is Stopped has no route registered in the proxy, also after a
\* stop that failed while it removed routes and after a create that demoted
\* a stale Running status and failed before its route step.
C36_StoppedHasNoRoute ==
    Quiescent => \A e \in environments : e.status = "stopped" => RoutesAbsent(e)

(***************************************************************************)
(* remove of an environment whose container is gone.                       *)
(***************************************************************************)
\* C39: remove of an environment whose stored container no longer exists
\* in the runtime still completes: the step that asks the runtime to remove
\* the container does not end the command with an error, and goes on to
\* the deletion of the port mappings, env files and environment row.
C39_RemoveWithoutContainerCompletes ==
    [][\A p \in Procs :
          (/\ procs[p].op = "remove"
           /\ procs[p].pc = "rm_container"
           /\ ContainerById(procs[p].containerId) = {}
           /\ procs'[p] # procs[p])
          => /\ procs'[p].outcome # "error"
             /\ procs'[p].pc = "rm_deletePM"]_vars

(***************************************************************************)
(* create and the environments of other projects.                          *)
(***************************************************************************)
\* C37: create(project, branch) resumes only an environment row of that
\* project: the row its lookup by the computed name selects (to reuse, to
\* demote, to reallocate the ports of) has the project id of the project
\* create was called for.
C37_ResumesOwnProjectOnly ==
    [][\A p \in Procs :
          (/\ procs[p].op = "create"
           /\ procs[p].pc = "c_getEnv"
           /\ procs'[p] # procs[p])
          => \A e \in environments :
                e.id = procs'[p].envId => e.projectId = procs[p].projectId]_vars

(***************************************************************************)
(* Hostnames of distinct environments.                                     *)
(***************************************************************************)
\* C38: distinct (project, branch, containerPort) triples get distinct
\* hostnames: when a command inserts a port mapping, no port mapping of a
\* different environment holds the hostname it inserts.
C38_HostnamesDistinct ==
    [][\A p \in Procs :
          (procs[p].pc = "portInsert" /\ procs'[p] # procs[p])
          => \A k \in 1..Len(portMappings) :
                portMappings[k].environmentId # procs[p].envId
                => portMappings[k].hostname
                      # generateHostname(procs[p].projectName, procs[p].branch,
                            resolveForwardPorts(procs[p].cfg)[procs[p].i])]_vars

(***************************************************************************)
(* Termination of the commands.                                            *)
(***************************************************************************)
\* C40: when every external call (worktree, runtime, proxy) returns, each
\* create, branch, start and stop that has begun eventually completes,
\* with success or with an error.
C40_OperationsComplete ==
    \A p \in {1, 2} :
        (procs[p].op \in {"create", "branch", "start", "stop"} /\ procs[p].pc # "done")
        ~> (procs[p].pc = "done" /\ procs[p].outcome # "none")

\* C40's case: a branch, the command with the most external calls, has
\* completed with success while the other command completed with an error
C40_Witness ==
    \E p, q \in Procs :
        /\ procs[p].op = "branch" /\ procs[p].pc = "done" /\ procs[p].outcome = "ok"
        /\ procs[q].op \in {"create", "start", "stop"}
        /\ procs[q].pc = "done" /\ procs[q].outcome = "error"

=============================================================================
